---- MODULE Spec2Model ----
(***************************************************************************)
(* A model of the pulses.bin reader (rust-core/src/pulse_reader.rs).       *)
(*                                                                         *)
(* Files are sequences of bytes.  The reader's operations are translated   *)
(* from pulse_reader.rs; the byte layouts of the structures declared in    *)
(* the sub-modules constants, headers and records follow the format        *)
(* description (little-endian fields in the order the description lists).  *)
(* A panic (an unwrap of None/Err, an arithmetic overflow under overflow   *)
(* checks) aborts the process: outcome "Panic".                            *)
(***************************************************************************)
EXTENDS Integers, Sequences, FiniteSets, TLC

\* ---------------------------------------------------------------- bounds
\* Largest number of raw records one aperture of a generated file holds.
MaxPulses == 2
\* Longest aperture list handed to copy_apertures_to_new_file.
MaxSel == 2
\* Decoded integers saturate here: every generated file is far shorter, so an offset,
\* count or magic at or above it is only ever "past the end" or "not the expected value".
MaxValue == 16777216

\* ------------------------------------------------------------- constants
FILE_HEADER_SIZE_FULL == 40
READ_HEADER_SIZE == 12
PULSE_SIZE == 2
INDEX_RECORD_SIZE == 12
PULSE_FILE_MAGIC == 80
INDEX_SECTION_MAGIC == 73
\* width of the u16 the scale is computed in (1u16 << rec_bits)
SCALE_BITS == 16

\* ------------------------------------------------------------------ bytes
RECURSIVE ToLE(_, _)
\* n.to_le_bytes() of a w-byte unsigned integer (n as uW wraps modulo 2^(8w))
ToLE(n, w) == IF w = 0 THEN <<>> ELSE <<n % 256>> \o ToLE(n \div 256, w - 1)

RECURSIVE FromLE(_)
\* uW::from_le_bytes(b)
FromLE(b) ==
    IF Len(b) = 0 THEN 0
    ELSE LET hi == FromLE(Tail(b))
         IN  IF hi >= MaxValue \div 256 THEN MaxValue ELSE 256 * hi + b[1]

\* the bytes [from, from + n) of f (0-based offsets)
Slice(f, from, n) == SubSeq(f, from + 1, from + n)

\* read_exact of n bytes at cursor pos: does the file hold them all?
CanRead(f, pos, n) == pos + n <= Len(f)

RECURSIVE Pow2(_)
Pow2(n) == IF n = 0 THEN 1 ELSE 2 * Pow2(n - 1)

RECURSIVE SumSeq(_)
SumSeq(s) == IF Len(s) = 0 THEN 0 ELSE s[1] + SumSeq(Tail(s))

RECURSIVE Concat(_)
Concat(ss) == IF Len(ss) = 0 THEN <<>> ELSE ss[1] \o Concat(Tail(ss))

RECURSIVE InsertSorted(_, _)
InsertSorted(x, s) ==
    IF Len(s) = 0 THEN <<x>>
    ELSE IF x <= s[1] THEN <<x>> \o s
    ELSE <<s[1]>> \o InsertSorted(x, Tail(s))

RECURSIVE SortAsc(_)
\* apertures.sort(): ascending, duplicates kept
SortAsc(s) == IF Len(s) = 0 THEN <<>> ELSE InsertSorted(s[1], SortAsc(Tail(s)))

Range(s) == {s[i] : i \in 1..Len(s)}

\* ---------------------------------------------------------------- headers
\* PulseFileHeader::new(&header_buffer)
ParseFileHeader(b) ==
    [magic                |-> FromLE(Slice(b, 0, 8)),
     num_encoding_records |-> FromLE(Slice(b, 8, 4)),
     metadata_length      |-> FromLE(Slice(b, 12, 4)),
     index_offset         |-> FromLE(Slice(b, 16, 8)),
     data_offset          |-> FromLE(Slice(b, 24, 8)),
     num_reads            |-> FromLE(Slice(b, 32, 8))]

\* PulseFileHeader::write_all(&mut writer): the bytes it writes
FileHeaderBytes(h) ==
    ToLE(h.magic, 8) \o ToLE(h.num_encoding_records, 4) \o ToLE(h.metadata_length, 4)
    \o ToLE(h.index_offset, 8) \o ToLE(h.data_offset, 8) \o ToLE(h.num_reads, 8)

\* PulseFileHeader::validate()
HeaderValid(h) == h.magic = PULSE_FILE_MAGIC

\* ApertureHeader::new(&buffer, byte_loc)
ParseApertureHeader(b, byte_loc) ==
    [well_id    |-> FromLE(Slice(b, 0, 4)),
     x          |-> FromLE(Slice(b, 4, 2)),
     y          |-> FromLE(Slice(b, 6, 2)),
     byte_loc   |-> byte_loc,
     num_pulses |-> FromLE(Slice(b, 8, 4))]

ApertureHeaderBytes(id, x, y, n) == ToLE(id, 4) \o ToLE(x, 2) \o ToLE(y, 2) \o ToLE(n, 4)

\* PulseFileIndex::new(&index_buffer, num_reads): (aperture, byte_loc) pairs in file order
ParseIndex(b, n) ==
    [i \in 1..n |->
        [ap       |-> FromLE(Slice(b, INDEX_RECORD_SIZE * (i - 1), 4)),
         byte_loc |-> FromLE(Slice(b, INDEX_RECORD_SIZE * (i - 1) + 4, 8))]]

\* PulseFileIndex::apertures
IndexApertures(index) == [i \in 1..Len(index) |-> index[i].ap]

NoLoc == -1
\* PulseFileIndex::get(aperture): the byte offset, NoLoc for None
IndexGet(index, ap) ==
    IF \E i \in 1..Len(index) : index[i].ap = ap
    THEN index[CHOOSE i \in 1..Len(index) :
                   /\ index[i].ap = ap
                   /\ \A j \in 1..(i - 1) : index[j].ap # ap].byte_loc
    ELSE NoLoc

\* The metadata blob: serde_json::from_str(..).unwrap() and metadata["fps"].as_f64().unwrap().
\* A document is abstracted to <<'{', fps, '}'>>; anything else does not parse.
MetadataParses(m) == Len(m) = 3 /\ m[1] = 123 /\ m[3] = 125
MetadataFps(m) == m[2]

\* ---------------------------------------------------------------- records
\* RawRecord::new(&pulse_buffer[idx * PULSE_SIZE .. (idx + 1) * PULSE_SIZE])
RawRecordNew(b) == [type_code |-> b[1], packed |-> b[2]]

\* the descriptor of a type code in the record-type table (the first entry carrying it)
TypeOf(record_types, code) ==
    IF \E i \in 1..Len(record_types) : record_types[i].record_type = code
    THEN record_types[CHOOSE i \in 1..Len(record_types) :
                          /\ record_types[i].record_type = code
                          /\ \A j \in 1..(i - 1) : record_types[j].record_type # code]
    ELSE [record_type |-> code, bits |-> 0, scale |-> 1, offset |-> 0]

\* FormattedRecord::from_raw(&raw_record, &record_types, idx): the packed field is
\* dequantized with the scale and offset of the record's type
FormattedFromRaw(raw, record_types, idx) ==
    LET t == TypeOf(record_types, raw.type_code)
    IN  [index       |-> idx,
         record_type |-> raw.type_code,
         duration    |-> raw.packed,
         intensity0  |-> [packed |-> raw.packed, scale |-> t.scale, offset |-> t.offset]]

\* type code of the pulse-bearing records; every other code is a non-pulse record
PULSE_TYPE == 0

RECURSIVE NormalizedFromFormatted(_, _)
\* NormalizedPulse::from_formatted_records(&records, fps): one pulse per pulse-bearing
\* record, in the order of the records
NormalizedFromFormatted(records, fps) ==
    IF Len(records) = 0 THEN <<>>
    ELSE LET r == records[1]
             rest == NormalizedFromFormatted(Tail(records), fps)
         IN  IF r.record_type = PULSE_TYPE
             THEN <<[index |-> r.index, dur_f |-> r.duration,
                     dur_s |-> [frames |-> r.duration, fps |-> fps],
                     intensity |-> r.intensity0]>> \o rest
             ELSE rest

\* ------------------------------------------------------------------- open
\* 1u16 << rec_bits: a shift by 16 or more panics under overflow checks (debug builds)
\* and is masked to the low four bits of the shift amount otherwise (release builds)
ShiftOverflows(bits) == bits >= SCALE_BITS
RecScale(bits) == Pow2(bits % SCALE_BITS) % Pow2(SCALE_BITS)

\* lines 64-84: the record-type table parsed from record_buffer
ParseRecordTypes(b, n) ==
    [i \in 1..n |->
        [record_type |-> b[4 * (i - 1) + 1],
         bits        |-> b[4 * (i - 1) + 2],
         scale       |-> RecScale(b[4 * (i - 1) + 2]),
         offset      |-> FromLE(Slice(b, 4 * (i - 1) + 2, 2))]]

Fail(kind, err) == [kind |-> kind, err |-> err]

\* faulty variant: the index magic is read and never compared
IndexMagicUnchecked(index_magic) == TRUE

\* line 108: index_magic != INDEX_SECTION_MAGIC rejects the file
IndexMagicMatches(index_magic) == index_magic = INDEX_SECTION_MAGIC

\* PulseReader::open on the bytes f of an existing file, in a build with (debug) or
\* without (release) overflow checks: Ok with the reader, Err, or Panic
Open(f, checks) ==
    IF ~CanRead(f, 0, FILE_HEADER_SIZE_FULL) THEN Fail("Err", "UnexpectedEof") ELSE
    LET header == ParseFileHeader(Slice(f, 0, FILE_HEADER_SIZE_FULL)) IN
    IF ~HeaderValid(header) THEN Fail("Err", "BadMagic") ELSE
    LET tpos == FILE_HEADER_SIZE_FULL
        tlen == 4 * header.num_encoding_records IN
    IF ~CanRead(f, tpos, tlen) THEN Fail("Err", "UnexpectedEof") ELSE
    LET tbuf == Slice(f, tpos, tlen) IN
    IF checks /\ \E i \in 1..header.num_encoding_records : ShiftOverflows(tbuf[4 * (i - 1) + 2])
    THEN Fail("Panic", "ShiftOverflow") ELSE
    LET record_types == ParseRecordTypes(tbuf, header.num_encoding_records)
        mpos == tpos + tlen IN
    IF ~CanRead(f, mpos, header.metadata_length) THEN Fail("Err", "UnexpectedEof") ELSE
    LET raw_metadata == Slice(f, mpos, header.metadata_length) IN
    IF ~MetadataParses(raw_metadata) THEN Fail("Panic", "BadMetadata") ELSE
    IF ~CanRead(f, header.index_offset, 8) THEN Fail("Err", "UnexpectedEof") ELSE
    IF ~IndexMagicMatches(FromLE(Slice(f, header.index_offset, 8)))
    THEN Fail("Err", "BadIndexMagic") ELSE
    LET ipos == header.index_offset + 8
        ilen == INDEX_RECORD_SIZE * header.num_reads IN
    IF ~CanRead(f, ipos, ilen) THEN Fail("Err", "UnexpectedEof") ELSE
    [kind |-> "Ok", err |-> "",
     reader |-> [header       |-> header,
                 record_types |-> record_types,
                 raw_metadata |-> raw_metadata,
                 fps          |-> MetadataFps(raw_metadata),
                 index        |-> ParseIndex(Slice(f, ipos, ilen), header.num_reads),
                 pos          |-> ipos + ilen]]

\* ---------------------------------------------------------------- queries
NoHeader == [well_id |-> NoLoc, x |-> 0, y |-> 0, byte_loc |-> NoLoc, num_pulses |-> 0]

QFail(kind, err, pos) ==
    [kind |-> kind, err |-> err, records |-> <<>>, header |-> NoHeader, pos |-> pos]

\* faulty variant: the seek is forgotten, the read starts where the cursor was left
QuerySeekForgotten(pos, byte_loc) == pos

\* line 242, self.file.seek(SeekFrom::Start(byte_loc)): the cursor after the seek,
\* whatever the cursor pos an earlier operation left
QuerySeek(pos, byte_loc) == byte_loc

\* PulseReader::get_raw_records(aperture) of reader r over the file bytes f
GetRawRecords(r, f, aperture) ==
    LET byte_loc == IndexGet(r.index, aperture) IN
    IF byte_loc = NoLoc THEN QFail("Panic", "NotFound", r.pos) ELSE
    LET cur == QuerySeek(r.pos, byte_loc) IN
    IF ~CanRead(f, cur, READ_HEADER_SIZE) THEN QFail("Err", "UnexpectedEof", Len(f)) ELSE
    LET aperture_header == ParseApertureHeader(Slice(f, cur, READ_HEADER_SIZE), byte_loc)
        ppos == cur + READ_HEADER_SIZE
        plen == PULSE_SIZE * aperture_header.num_pulses IN
    IF ~CanRead(f, ppos, plen) THEN QFail("Err", "UnexpectedEof", Len(f)) ELSE
    LET pulse_buffer == Slice(f, ppos, plen) IN
    [kind    |-> "Ok", err |-> "",
     records |-> [i \in 1..aperture_header.num_pulses |->
                     RawRecordNew(Slice(pulse_buffer, (i - 1) * PULSE_SIZE, PULSE_SIZE))],
     header  |-> aperture_header,
     pos     |-> ppos + plen]

\* faulty variant: positions counted from 1
GetAllRecordsOneBased(r, f, aperture) ==
    LET raw == GetRawRecords(r, f, aperture) IN
    IF raw.kind # "Ok" THEN QFail("Panic", raw.err, raw.pos) ELSE
    [raw EXCEPT !.records = [i \in 1..Len(raw.records) |->
                                FormattedFromRaw(raw.records[i], r.record_types, i)]]

\* PulseReader::get_all_records(aperture): get_raw_records(..).unwrap(), then from_raw
\* on every raw record with its position
GetAllRecords(r, f, aperture) ==
    LET raw == GetRawRecords(r, f, aperture) IN
    IF raw.kind # "Ok" THEN QFail("Panic", raw.err, raw.pos) ELSE
    [raw EXCEPT !.records = [i \in 1..Len(raw.records) |->
                                FormattedFromRaw(raw.records[i], r.record_types, i - 1)]]

\* faulty variant: the formatted records reach the normalizer last record first
GetPulsesReversed(r, f, aperture) ==
    LET all == GetAllRecords(r, f, aperture) IN
    IF all.kind # "Ok" THEN all ELSE
    [all EXCEPT !.records =
        NormalizedFromFormatted([i \in 1..Len(all.records) |->
                                    all.records[Len(all.records) + 1 - i]], r.fps)]

\* PulseReader::get_pulses(aperture, None)
GetPulses(r, f, aperture) ==
    LET all == GetAllRecords(r, f, aperture) IN
    IF all.kind # "Ok" THEN all ELSE
    [all EXCEPT !.records = NormalizedFromFormatted(all.records, r.fps)]

\* ------------------------------------------------------------ subset writer
\* lines 176-189, one iteration: the span of aperture ap in the source file
ApSpan(r, f, ap) ==
    LET byte_loc == IndexGet(r.index, ap) IN
    IF byte_loc = NoLoc THEN [kind |-> "Panic", err |-> "NotFound", byte_loc |-> NoLoc, len |-> 0] ELSE
    IF ~CanRead(f, byte_loc, READ_HEADER_SIZE)
    THEN [kind |-> "Err", err |-> "UnexpectedEof", byte_loc |-> byte_loc, len |-> 0] ELSE
    LET aperture_header == ParseApertureHeader(Slice(f, byte_loc, READ_HEADER_SIZE), byte_loc) IN
    [kind |-> "Ok", err |-> "", byte_loc |-> byte_loc,
     len |-> READ_HEADER_SIZE + aperture_header.num_pulses * PULSE_SIZE]

\* the first position of a sequence of step results that is not Ok, 0 when all are
FirstBad(steps) ==
    IF \E i \in 1..Len(steps) : steps[i].kind # "Ok"
    THEN CHOOSE i \in 1..Len(steps) :
             /\ steps[i].kind # "Ok"
             /\ \A j \in 1..(i - 1) : steps[j].kind = "Ok"
    ELSE 0

\* faulty variant: the requested order is kept, the sort forgotten
CopyOrderAsGiven(apertures) == apertures

\* the order in which copy_apertures_to_new_file walks the requested apertures
CopyOrder(apertures) == SortAsc(apertures)

\* faulty variant: index_offset keeps the source's value
NewFileHeaderStaleIndexOffset(header, n, offset) == [header EXCEPT !.num_reads = n]

\* faulty variant: num_reads keeps the source's value
NewFileHeaderStaleNumReads(header, n, offset) == [header EXCEPT !.index_offset = offset]

\* lines 196-200: the header of the new file
NewFileHeader(header, n, offset) ==
    [header EXCEPT !.num_reads = n, !.index_offset = offset]

CFail(kind, err, created, bytes, pos) ==
    [kind |-> kind, err |-> err, created |-> created, bytes |-> bytes, pos |-> pos]

\* PulseReader::copy_apertures_to_new_file(apertures, file_name) of reader r over the
\* file bytes f: the outcome, whether the destination was created, and the bytes it holds
CopyApertures(r, f, requested) ==
    LET apertures == CopyOrder(requested)
        n == Len(apertures)
        spans == [i \in 1..n |-> ApSpan(r, f, apertures[i])]
        bad1 == FirstBad(spans) IN
    IF bad1 # 0
    THEN CFail(spans[bad1].kind, spans[bad1].err, FALSE, <<>>,
               IF spans[bad1].kind = "Err" THEN Len(f)
               ELSE IF bad1 = 1 THEN r.pos
               ELSE spans[bad1 - 1].byte_loc + READ_HEADER_SIZE) ELSE
    LET ap_byte_len == [i \in 1..n |-> spans[i].len]
        new_ap_byte_loc == [i \in 1..n |->
                               r.header.data_offset + SumSeq(SubSeq(ap_byte_len, 1, i - 1))]
        offset == r.header.data_offset + SumSeq(ap_byte_len)
        head == FileHeaderBytes(NewFileHeader(r.header, n, offset)) IN
    IF r.header.data_offset < FILE_HEADER_SIZE_FULL
    THEN CFail("Panic", "SubtractOverflow", TRUE, head, FILE_HEADER_SIZE_FULL) ELSE
    LET rlen == r.header.data_offset - FILE_HEADER_SIZE_FULL IN
    IF ~CanRead(f, FILE_HEADER_SIZE_FULL, rlen)
    THEN CFail("Err", "UnexpectedEof", TRUE, head, Len(f)) ELSE
    LET remaining == Slice(f, FILE_HEADER_SIZE_FULL, rlen)
        reads == [i \in 1..n |->
                     IF CanRead(f, spans[i].byte_loc, spans[i].len)
                     THEN [kind |-> "Ok", bytes |-> Slice(f, spans[i].byte_loc, spans[i].len)]
                     ELSE [kind |-> "Err", bytes |-> <<>>]]
        bad2 == FirstBad(reads) IN
    IF bad2 # 0
    THEN CFail("Err", "UnexpectedEof", TRUE,
               head \o remaining \o Concat([i \in 1..(bad2 - 1) |-> reads[i].bytes]),
               Len(f)) ELSE
    CFail("Ok", "", TRUE,
          head \o remaining \o Concat([i \in 1..n |-> reads[i].bytes])
          \o ToLE(INDEX_SECTION_MAGIC, 8)
          \o Concat([i \in 1..n |-> ToLE(apertures[i], 4) \o ToLE(new_ap_byte_loc[i], 8)]),
          IF n = 0 THEN FILE_HEADER_SIZE_FULL + rlen
          ELSE spans[n].byte_loc + spans[n].len)

\* ------------------------------------------------------------ source files
\* Aperture identifiers of the generated files (the format description's scenario).
ApIds == <<10, 20, 30>>
\* An identifier no generated file holds.
AbsentIds == {99}

\* The generated files: well-formed ones (every pulse-count profile) and ones damaged
\* in a single place (profile 1).
Variants ==
    {"valid", "diskRev", "bits16", "bits20", "badMagic", "cutHeader", "badIndexMagic",
     "cutIndex", "moreReads", "badMeta", "swapIndex", "hugeCount", "offEnd"}

NumPulses(prof, i) == (prof + i - 1) % (MaxPulses + 1)

\* record j of aperture id: every third record is a non-pulse (type 1) record
RecordBytes(id, j) == <<(IF ((id \div 10) + j) % 3 = 0 THEN 1 ELSE 0), (id + j) % 256>>

ApertureBlock(id, cnt, claimed) ==
    ApertureHeaderBytes(id, id % 7, id % 5, claimed)
    \o Concat([j \in 1..cnt |-> RecordBytes(id, j - 1)])

TypeTable(variant) ==
    <<0, 8, 0, 0>>
    \o <<1, (CASE variant = "bits16" -> 16 [] variant = "bits20" -> 20 [] OTHER -> 12), 100, 0>>

\* The bytes of the file with the first n identifiers, pulse-count profile prof and
\* the given variant.
BuildFile(n, prof, variant) ==
    LET ids == SubSeq(ApIds, 1, n)
        types == TypeTable(variant)
        meta == IF variant = "badMeta" THEN <<123, 30, 0>> ELSE <<123, 30, 125>>
        data_offset == FILE_HEADER_SIZE_FULL + Len(types) + Len(meta)
        disk == [k \in 1..n |-> IF variant = "diskRev" THEN n + 1 - k ELSE k]
        cnt(i) == NumPulses(prof, i)
        span(i) == READ_HEADER_SIZE + PULSE_SIZE * cnt(i)
        diskOff(k) == data_offset + SumSeq([j \in 1..(k - 1) |-> span(disk[j])])
        offOf(i) == diskOff(CHOOSE k \in 1..n : disk[k] = i)
        claimed(i) == IF variant = "hugeCount" /\ i = disk[n] THEN cnt(i) + 40 ELSE cnt(i)
        data == Concat([k \in 1..n |->
                           ApertureBlock(ids[disk[k]], cnt(disk[k]), claimed(disk[k]))])
        index_offset == data_offset + Len(data)
        target(i) == CASE variant = "swapIndex" -> offOf((i % n) + 1)
                       [] variant = "offEnd" /\ i = n ->
                              index_offset + 8 + INDEX_RECORD_SIZE * n - 4
                       [] OTHER -> offOf(i)
        index == ToLE(IF variant = "badIndexMagic" THEN INDEX_SECTION_MAGIC + 1
                      ELSE INDEX_SECTION_MAGIC, 8)
                 \o Concat([i \in 1..n |-> ToLE(ids[i], 4) \o ToLE(target(i), 8)])
        header == [magic                |-> IF variant = "badMagic" THEN PULSE_FILE_MAGIC + 1
                                            ELSE PULSE_FILE_MAGIC,
                   num_encoding_records |-> 2,
                   metadata_length      |-> Len(meta),
                   index_offset         |-> index_offset,
                   data_offset          |-> data_offset,
                   num_reads            |-> IF variant = "moreReads" THEN n + 1 ELSE n]
        full == FileHeaderBytes(header) \o types \o meta \o data \o index
    IN  CASE variant = "cutHeader" -> SubSeq(full, 1, FILE_HEADER_SIZE_FULL - 1)
          [] variant = "cutIndex" -> SubSeq(full, 1, Len(full) - INDEX_RECORD_SIZE)
          [] OTHER -> full

\* ----------------------------------------------------------------- state
VARIABLES
    file,       \* the source file: which of the generated files it is
    checks,     \* TRUE in a build with overflow checks (debug), FALSE in a release build
    rd,         \* PulseReader::open(source): its outcome and, when Ok, the reader
    dst,        \* the destination path of the subset writer: created?, its bytes
    rd2,        \* PulseReader::open(destination)
    copied,     \* the subset-writer call made: its argument and outcome
    last        \* the most recent call: operation, argument, result

vars == <<file, checks, rd, dst, rd2, copied, last>>

\* the bytes of the source file
src == BuildFile(file.n, file.prof, file.variant)

NotOpened == [kind |-> "None", err |-> ""]
NoCall == [op |-> "none", arg |-> <<>>, res |-> [kind |-> "None", err |-> ""]]

\* a panic aborts the process
Crashed == rd.kind = "Panic" \/ rd2.kind = "Panic" \/ last.res.kind = "Panic"

Init ==
    /\ \E n \in 1..Len(ApIds), prof \in 0..MaxPulses, variant \in Variants :
           /\ variant \in {"valid", "diskRev"} \/ prof = 1
           /\ file = [n |-> n, prof |-> prof, variant |-> variant]
           /\ checks \in (IF variant \in {"bits16", "bits20"} THEN BOOLEAN ELSE {FALSE})
    /\ rd = NotOpened
    /\ dst = [created |-> FALSE, bytes |-> <<>>]
    /\ rd2 = NotOpened
    /\ copied = [arg |-> <<>>, kind |-> "None", err |-> ""]
    /\ last = NoCall

\* identifiers a caller asks for: those of the index and an absent one
QueryIds(r) == Range(IndexApertures(r.index)) \cup AbsentIds

RECURSIVE SeqsUpTo(_, _)
\* the sequences over S of length at most n
SeqsUpTo(S, n) ==
    IF n = 0 THEN {<<>>}
    ELSE LET shorter == SeqsUpTo(S, n - 1)
         IN  shorter \cup {Append(q, x) : q \in shorter, x \in S}

\* PulseReader::open(source)
OpenSource ==
    /\ rd.kind = "None"
    /\ rd' = Open(src, checks)
    /\ last' = [op |-> "open", arg |-> <<>>, res |-> [kind |-> rd'.kind, err |-> rd'.err]]
    /\ UNCHANGED <<file, checks, dst, rd2, copied>>

\* reader.get_all_records(a)
CallGetAllRecords ==
    /\ rd.kind = "Ok" /\ ~Crashed
    /\ \E a \in QueryIds(rd.reader) :
           LET res == GetAllRecords(rd.reader, src, a) IN
           /\ last' = [op |-> "get_all_records", arg |-> <<a>>, res |-> res]
           /\ rd' = [rd EXCEPT !.reader.pos = res.pos]
    /\ UNCHANGED <<file, checks, dst, rd2, copied>>

\* reader.get_pulses(a, None)
CallGetPulses ==
    /\ rd.kind = "Ok" /\ ~Crashed
    /\ \E a \in QueryIds(rd.reader) :
           LET res == GetPulses(rd.reader, src, a) IN
           /\ last' = [op |-> "get_pulses", arg |-> <<a>>, res |-> res]
           /\ rd' = [rd EXCEPT !.reader.pos = res.pos]
    /\ UNCHANGED <<file, checks, dst, rd2, copied>>

\* reader.copy_apertures_to_new_file(sel, tmp), tmp a fresh path
CallCopy ==
    /\ rd.kind = "Ok" /\ ~Crashed
    /\ ~dst.created
    /\ \E sel \in SeqsUpTo(QueryIds(rd.reader), MaxSel) :
           LET res == CopyApertures(rd.reader, src, sel) IN
           /\ last' = [op |-> "copy", arg |-> sel,
                       res |-> [kind |-> res.kind, err |-> res.err, created |-> res.created]]
           /\ dst' = [created |-> res.created, bytes |-> res.bytes]
           /\ copied' = [arg |-> sel, kind |-> res.kind, err |-> res.err]
           /\ rd' = [rd EXCEPT !.reader.pos = res.pos]
    /\ UNCHANGED <<file, checks, rd2>>

\* PulseReader::open(tmp)
OpenCopy ==
    /\ ~Crashed
    /\ dst.created
    /\ rd2.kind = "None"
    /\ rd2' = Open(dst.bytes, checks)
    /\ last' = [op |-> "open_copy", arg |-> <<>>, res |-> [kind |-> rd2'.kind, err |-> rd2'.err]]
    /\ UNCHANGED <<file, checks, rd, dst, copied>>

\* copy_reader.get_all_records(a)
CallGetAllRecordsCopy ==
    /\ rd2.kind = "Ok" /\ ~Crashed
    /\ \E a \in QueryIds(rd2.reader) :
           LET res == GetAllRecords(rd2.reader, dst.bytes, a) IN
           /\ last' = [op |-> "get_all_records_copy", arg |-> <<a>>, res |-> res]
           /\ rd2' = [rd2 EXCEPT !.reader.pos = res.pos]
    /\ UNCHANGED <<file, checks, rd, dst, copied>>

Next ==
    \/ OpenSource
    \/ CallGetAllRecords
    \/ CallGetPulses
    \/ CallCopy
    \/ OpenCopy
    \/ CallGetAllRecordsCopy

Spec == Init /\ [][Next]_vars

\* ------------------------------------------------------------- properties
HasDup(s) == \E i, j \in 1..Len(s) : i < j /\ s[i] = s[j]

InIndex(r, a) == IndexGet(r.index, a) # NoLoc

\* the byte span of aperture a as the index of r locates it in f: the aperture header
\* and the num_pulses raw records behind it (<<>> when the file does not hold it all)
SpanAt(r, f, a) ==
    LET loc == IndexGet(r.index, a) IN
    IF loc = NoLoc \/ ~CanRead(f, loc, READ_HEADER_SIZE) THEN <<>> ELSE
    LET h == ParseApertureHeader(Slice(f, loc, READ_HEADER_SIZE), loc)
        len == READ_HEADER_SIZE + h.num_pulses * PULSE_SIZE IN
    IF CanRead(f, loc, len) THEN Slice(f, loc, len) ELSE <<>>

\* an aperture header without the offset it was read at
HeaderContent(h) == [well_id |-> h.well_id, x |-> h.x, y |-> h.y, num_pulses |-> h.num_pulses]

\* the subset writer returned Ok for a non-empty list without repetitions
RoundTripCase == copied.kind = "Ok" /\ Len(copied.arg) > 0 /\ ~HasDup(copied.arg)

\* C1: after copy_apertures_to_new_file(S, tmp) succeeded for a non-empty duplicate-free
\* S, open(tmp) succeeds with an index of exactly |S| entries whose identifiers are S,
\* every a in S is located at a span byte-identical to its span in the source, and
\* get_all_records(a) on the copy returns the records it returns on the source.
C1_RoundTrip ==
    RoundTripCase =>
        /\ rd2.kind # "None" =>
               /\ rd2.kind = "Ok"
               /\ Len(rd2.reader.index) = Len(copied.arg)
               /\ Range(IndexApertures(rd2.reader.index)) = Range(copied.arg)
               /\ \A a \in Range(copied.arg) :
                      /\ SpanAt(rd.reader, src, a) # <<>>
                      /\ SpanAt(rd2.reader, dst.bytes, a) = SpanAt(rd.reader, src, a)
        /\ (last.op = "get_all_records_copy" /\ last.arg[1] \in Range(copied.arg)) =>
               LET onSource == GetAllRecords(rd.reader, src, last.arg[1]) IN
               /\ last.res.kind = "Ok"
               /\ onSource.kind = "Ok"
               /\ last.res.records = onSource.records
               /\ HeaderContent(last.res.header) = HeaderContent(onSource.header)

\* a copy of two apertures requested in descending order was reopened and queried
C1_Witness ==
    /\ RoundTripCase
    /\ Len(copied.arg) = 2 /\ copied.arg[1] > copied.arg[2]
    /\ last.op = "get_all_records_copy" /\ last.arg[1] = copied.arg[1]
    /\ last.res.kind = "Ok" /\ Len(last.res.records) > 0
    /\ Len(rd.reader.index) > 2

\* C2: a list in which an identifier occurs twice is rejected with InvalidInput and the
\* destination is not created.
C2_DuplicatesRejected ==
    (copied.kind # "None" /\ HasDup(copied.arg)) =>
        /\ copied.kind = "Err" /\ copied.err = "InvalidInput"
        /\ ~dst.created

\* C3: a list holding an identifier absent from the source index fails with NotFound
\* returned to the caller, and the destination is not created.
C3_AbsentIdNotFound ==
    (copied.kind # "None" /\ \E i \in 1..Len(copied.arg) : ~InIndex(rd.reader, copied.arg[i])) =>
        /\ copied.kind = "Err" /\ copied.err = "NotFound"
        /\ ~dst.created

\* the part of C3 the subset writer does deliver: the destination is not created
C3_DestinationNotCreated ==
    (copied.kind # "None" /\ \E i \in 1..Len(copied.arg) : ~InIndex(rd.reader, copied.arg[i])) =>
        ~dst.created

\* C4: a per-aperture query for an identifier absent from the index, or whose header or
\* record block cannot be read in full, returns an error value (NotFound, IoError) and
\* does not abort the process.
C4_QueryErrorsReturned ==
    (/\ last.op \in {"get_all_records", "get_pulses"}
     /\ SpanAt(rd.reader, src, last.arg[1]) = <<>>) =>
        /\ last.res.kind = "Err"
        /\ last.res.err = (IF InIndex(rd.reader, last.arg[1]) THEN "UnexpectedEof" ELSE "NotFound")
        /\ ~Crashed

\* C5: a successful get_all_records(a) returns exactly num_pulses records, the i-th
\* carrying position index i (0-based).
C5_RecordCount ==
    (last.op \in {"get_all_records", "get_all_records_copy"} /\ last.res.kind = "Ok") =>
        /\ Len(last.res.records) = last.res.header.num_pulses
        /\ \A i \in 1..Len(last.res.records) : last.res.records[i].index = i - 1

C5_Witness ==
    /\ last.op = "get_all_records" /\ last.res.kind = "Ok"
    /\ Len(last.res.records) = MaxPulses /\ last.res.header.num_pulses = MaxPulses

\* C6: a per-aperture query for a never returns successfully with an aperture header whose
\* well id differs from a.
C6_NoForeignHeader ==
    (last.op \in {"get_all_records", "get_pulses"} /\ last.res.kind = "Ok") =>
        last.res.header.well_id = last.arg[1]

\* what open validates, read off the bytes of a file
HeaderReadable(f) == CanRead(f, 0, FILE_HEADER_SIZE_FULL)
FileMagicOk(f) == Len(f) >= 8 /\ FromLE(Slice(f, 0, 8)) = PULSE_FILE_MAGIC
HeaderOf(f) == ParseFileHeader(Slice(f, 0, FILE_HEADER_SIZE_FULL))
TablesReadable(f) ==
    CanRead(f, FILE_HEADER_SIZE_FULL,
            4 * HeaderOf(f).num_encoding_records + HeaderOf(f).metadata_length)
IndexMagicReadable(f) == CanRead(f, HeaderOf(f).index_offset, 8)
IndexMagicOk(f) ==
    /\ IndexMagicReadable(f)
    /\ FromLE(Slice(f, HeaderOf(f).index_offset, 8)) = INDEX_SECTION_MAGIC
IndexComplete(f) ==
    CanRead(f, HeaderOf(f).index_offset + 8, INDEX_RECORD_SIZE * HeaderOf(f).num_reads)

\* res is the outcome of open on the bytes f
OpenValidated(res, f) ==
    /\ res.kind = "Ok" =>
           HeaderReadable(f) /\ FileMagicOk(f) /\ IndexMagicOk(f) /\ IndexComplete(f)
    /\ res.kind # "Ok" => "reader" \notin DOMAIN res
    /\ ~FileMagicOk(f) =>
           /\ res.kind = "Err"
           /\ HeaderReadable(f) => res.err = "BadMagic"
    /\ (/\ HeaderReadable(f) /\ FileMagicOk(f) /\ TablesReadable(f) /\ res.kind # "Panic"
        /\ IndexMagicReadable(f) /\ ~IndexMagicOk(f)) =>
           res.kind = "Err" /\ res.err = "BadIndexMagic"
    /\ (/\ HeaderReadable(f) /\ FileMagicOk(f) /\ TablesReadable(f) /\ res.kind # "Panic"
        /\ IndexMagicOk(f) /\ ~IndexComplete(f)) =>
           res.kind = "Err" /\ res.err = "UnexpectedEof"

\* C7: open returns a reader only when the file magic matches, the 8 bytes at
\* index_offset equal the index-section magic and the index section holds num_reads
\* records; otherwise it fails (bad magic, bad index magic, truncation) and no reader
\* is constructed.
C7_OpenValidates ==
    /\ rd.kind # "None" => OpenValidated(rd, src)
    /\ rd2.kind # "None" => OpenValidated(rd2, dst.bytes)

\* a header that claims more apertures than the index section encodes was rejected
C7_Witness ==
    /\ rd.kind = "Err" /\ rd.err = "UnexpectedEof"
    /\ HeaderReadable(src) /\ FileMagicOk(src) /\ IndexMagicOk(src) /\ ~IndexComplete(src)
    /\ HeaderOf(src).num_reads > file.n

\* C8: the header the subset writer writes equals the source header except num_reads
\* (the number of selected apertures) and index_offset (the end of the last copied
\* span); a copy of the full aperture set keeps num_reads; the bytes between the header
\* and data_offset are those of the source.
C8_HeaderFrame ==
    copied.kind = "Ok" =>
        LET h == rd.reader.header
            h2 == ParseFileHeader(Slice(dst.bytes, 0, FILE_HEADER_SIZE_FULL))
            n == Len(copied.arg)
            spanSum == SumSeq([i \in 1..n |-> Len(SpanAt(rd.reader, src, copied.arg[i]))])
        IN  /\ h2.magic = h.magic
            /\ h2.num_encoding_records = h.num_encoding_records
            /\ h2.metadata_length = h.metadata_length
            /\ h2.data_offset = h.data_offset
            /\ h2.num_reads = n
            /\ h2.index_offset = h.data_offset + spanSum
            /\ h2.index_offset = Len(dst.bytes) - 8 - INDEX_RECORD_SIZE * n
            /\ Slice(dst.bytes, FILE_HEADER_SIZE_FULL, h.data_offset - FILE_HEADER_SIZE_FULL)
                   = Slice(src, FILE_HEADER_SIZE_FULL, h.data_offset - FILE_HEADER_SIZE_FULL)
            /\ (~HasDup(copied.arg) /\ Range(copied.arg) = Range(IndexApertures(rd.reader.index))) =>
                   /\ h2.num_reads = h.num_reads
                   /\ h2 = [h EXCEPT !.index_offset = h2.index_offset]

\* the full aperture set of a two-aperture file was copied, requested in descending order
C8_Witness ==
    /\ copied.kind = "Ok" /\ Len(copied.arg) = 2 /\ copied.arg[1] > copied.arg[2]
    /\ Range(copied.arg) = Range(IndexApertures(rd.reader.index))
    /\ dst.created

\* C9: get_pulses(a, None) returns no more pulses than get_all_records(a) returns records
\* (no more than num_pulses); every pulse stems from a pulse record and the pulses keep
\* the on-disk order of their records.
C9_PulsesOnlyDropped ==
    (last.op = "get_pulses" /\ last.res.kind = "Ok") =>
        LET all == GetAllRecords(rd.reader, src, last.arg[1])
            pulses == last.res.records
        IN  /\ all.kind = "Ok"
            /\ Len(pulses) <= Len(all.records)
            /\ Len(pulses) <= last.res.header.num_pulses
            /\ \A i, j \in 1..Len(pulses) : i < j => pulses[i].index < pulses[j].index
            /\ \A i \in 1..Len(pulses) :
                   \E k \in 1..Len(all.records) :
                       /\ all.records[k].index = pulses[i].index
                       /\ all.records[k].record_type = PULSE_TYPE

\* an aperture with a non-pulse record was normalized: fewer pulses than records
C9_Witness ==
    /\ last.op = "get_pulses" /\ last.res.kind = "Ok"
    /\ Len(last.res.records) > 0
    /\ Len(last.res.records) < last.res.header.num_pulses

\* C10: for every entry of the record-type table open derives scale = 2^bits, for every
\* bit width (16 included), without overflow, wrap or abort.
C10_ScaleIsTwoToBits ==
    (rd.kind # "None" /\ HeaderReadable(src) /\ FileMagicOk(src) /\ TablesReadable(src)) =>
        /\ ~(rd.kind = "Panic" /\ rd.err = "ShiftOverflow")
        /\ rd.kind = "Ok" =>
               \A i \in 1..Len(rd.reader.record_types) :
                   rd.reader.record_types[i].scale = Pow2(rd.reader.record_types[i].bits)

\* the index section of a written file, parsed at the index_offset its header names
WrittenIndex(f) ==
    LET h == HeaderOf(f) IN
    IF CanRead(f, h.index_offset + 8, INDEX_RECORD_SIZE * h.num_reads)
    THEN ParseIndex(Slice(f, h.index_offset + 8, INDEX_RECORD_SIZE * h.num_reads), h.num_reads)
    ELSE <<>>

\* C11: in the file the subset writer wrote, the selected apertures lie in ascending
\* identifier order, the first at the source's data_offset and each next one at the
\* previous offset plus the previous span length (READ_HEADER_SIZE + num_pulses *
\* PULSE_SIZE), without gap or overlap; index_offset is data_offset plus the sum of the
\* span lengths; the index records are in the same ascending order, the k-th pairing the
\* k-th smallest identifier with the k-th offset.
C11_Layout ==
    copied.kind = "Ok" =>
        LET h == rd.reader.header
            h2 == HeaderOf(dst.bytes)
            n == Len(copied.arg)
            idx == WrittenIndex(dst.bytes)
            len(k) == Len(SpanAt(rd.reader, src, idx[k].ap))
        IN  /\ Len(idx) = n
            /\ \A a \in Range(copied.arg) :
                   Cardinality({k \in 1..n : idx[k].ap = a})
                       = Cardinality({k \in 1..n : copied.arg[k] = a})
            /\ \A k \in 1..(n - 1) : idx[k].ap <= idx[k + 1].ap
            /\ ~HasDup(copied.arg) => \A k \in 1..(n - 1) : idx[k].ap < idx[k + 1].ap
            /\ n > 0 => idx[1].byte_loc = h.data_offset
            /\ \A k \in 1..n :
                   /\ len(k) >= READ_HEADER_SIZE
                   /\ CanRead(dst.bytes, idx[k].byte_loc, len(k))
                   /\ Slice(dst.bytes, idx[k].byte_loc, len(k)) = SpanAt(rd.reader, src, idx[k].ap)
                   /\ len(k) = READ_HEADER_SIZE + PULSE_SIZE *
                          ParseApertureHeader(Slice(dst.bytes, idx[k].byte_loc, READ_HEADER_SIZE),
                                              idx[k].byte_loc).num_pulses
            /\ \A k \in 1..(n - 1) : idx[k + 1].byte_loc = idx[k].byte_loc + len(k)
            /\ h2.index_offset = h.data_offset + SumSeq([k \in 1..n |-> len(k)])
            /\ n > 0 => h2.index_offset = idx[n].byte_loc + len(n)
            /\ CanRead(dst.bytes, h2.index_offset, 8)
            /\ FromLE(Slice(dst.bytes, h2.index_offset, 8)) = INDEX_SECTION_MAGIC
            /\ Len(dst.bytes) = h2.index_offset + 8 + INDEX_RECORD_SIZE * n

\* two apertures of a file stored in descending identifier order were requested in
\* descending order, and both hold records
C11_Witness ==
    /\ copied.kind = "Ok" /\ file.variant = "diskRev"
    /\ Len(copied.arg) = 2 /\ copied.arg[1] > copied.arg[2]
    /\ \A i \in 1..2 : Len(SpanAt(rd.reader, src, copied.arg[i])) > READ_HEADER_SIZE
    /\ Len(SpanAt(rd.reader, src, copied.arg[1])) # Len(SpanAt(rd.reader, src, copied.arg[2]))

\* the reader a fresh PulseReader::open of the source file gives
FreshReader == Open(src, checks).reader

\* what the reader holds besides the cursor of its file handle
ReaderContent(r) ==
    [header |-> r.header, record_types |-> r.record_types, raw_metadata |-> r.raw_metadata,
     fps |-> r.fps, index |-> r.index]

\* C12: after any sequence of get_all_records, get_pulses and copy_apertures_to_new_file
\* calls on one reader, its header, record-type table, fps and aperture index are those
\* of open, and the most recent call returned (and, for the subset writer, wrote) what
\* the same call returns on a freshly opened reader: no result depends on the file
\* cursor an earlier call left.
C12_HistoryIndependent ==
    rd.kind = "Ok" =>
        /\ ReaderContent(rd.reader) = ReaderContent(FreshReader)
        /\ (last.op = "get_all_records" /\ last.res.kind = "Ok") =>
               last.res = GetAllRecords(FreshReader, src, last.arg[1])
        /\ (last.op = "get_pulses" /\ last.res.kind = "Ok") =>
               last.res = GetPulses(FreshReader, src, last.arg[1])
        /\ (last.op = "copy" /\ last.res.kind = "Ok") =>
               LET onFresh == CopyApertures(FreshReader, src, last.arg) IN
               /\ onFresh.kind = "Ok"
               /\ onFresh.bytes = dst.bytes
        /\ (last.op \in {"get_all_records", "get_pulses"} /\ last.res.kind = "Ok") =>
               rd.reader.pos = last.res.pos

\* a query of an aperture with records, made after a successful copy that ended on
\* another aperture, so with the cursor neither where open left it nor at the aperture
C12_Witness ==
    /\ rd.kind = "Ok" /\ copied.kind = "Ok" /\ Len(copied.arg) > 0
    /\ last.op = "get_all_records" /\ last.res.kind = "Ok"
    /\ last.arg[1] \notin Range(copied.arg)
    /\ Len(last.res.records) > 0
    /\ rd.reader.pos # FreshReader.pos

====
